---- MODULE Spec2Model ----
(***************************************************************************)
(* A model of localstack-backup.py: the backup and restore of a LocalStack *)
(* environment (S3 buckets and objects, SQS queues and messages, SNS       *)
(* topics and subscriptions) through six pickle files in the working       *)
(* directory.                                                              *)
(*                                                                         *)
(* The state is the emulated environment, the working directory, and the   *)
(* position of the process in main() -> backup()/restore().  Each of the   *)
(* six service functions is one action that models the whole function.     *)
(* An uncaught Python exception ends the process (a "fault").              *)
(*                                                                         *)
(* Strings that the program takes apart (queue URLs, topic ARNs, queue     *)
(* names) are sequences of tokens, so that split() and endswith() are      *)
(* computed; other strings are atoms.  The responses of the boto3 client   *)
(* are records with the keys botocore gives them: a list member that is    *)
(* empty in the service's answer ('Contents', 'QueueUrls', 'Messages') is  *)
(* absent from the response, and subscripting it raises KeyError.          *)
(***************************************************************************)
EXTENDS Integers, Sequences, FiniteSets, TLC

\* ------------------------------------------------------------------ bounds
\* Objects the users put in the environment.
MaxObjects == 2
\* Messages a producer leaves in one queue.
MaxMsgs == 2
\* Cap on the length of one queue (a restore that could exceed it is not taken).
MaxQueueLen == 4
\* Runs of the tool on one start of LocalStack.
MaxRuns == 2

\* ---------------------------------------------------------------- universe
\* Bucket names, in the order list_buckets returns them.
BucketOrder == <<"alpha", "beta">>
\* Object keys, in the order list_objects returns them.
KeyOrder == <<"k1", "k2">>
\* Object bodies (bytes) and message bodies.
Bodies == {"x", "y"}

\* ----------------------------------------------------------------- helpers
Range(s) == {s[i] : i \in 1..Len(s)}

Last(s) == s[Len(s)]

\* The members of S in the order of the sequence `order`.
ListSeq(order, S) == SelectSeq(order, LAMBDA x: x \in S)

\* str.endswith
EndsWith(s, suffix) ==
    /\ Len(s) >= Len(suffix)
    /\ SubSeq(s, Len(s) - Len(suffix) + 1, Len(s)) = suffix

\* str.split(sep): the list of the segments between the separators.
RECURSIVE Split(_, _)
Split(s, sep) ==
    IF \A i \in 1..Len(s): s[i] # sep
    THEN <<s>>
    ELSE LET i == CHOOSE i \in 1..Len(s):
                      s[i] = sep /\ \A j \in 1..(i - 1): s[j] # sep
         IN  <<SubSeq(s, 1, i - 1)>> \o Split(SubSeq(s, i + 1, Len(s)), sep)

\* ------------------------------------------------------------------- files
FileNames == {"s3_buckets.pickle", "s3_objects.pickle",
              "sqs_queues.pickle", "sqs_messages.pickle",
              "sns_topics.pickle", "sns_subs.pickle"}

NoFile == [present |-> FALSE, data |-> <<>>]

\* with open(f, 'wb') as fh: pickle.dump(value, fh)
Dump(d, f, value) == [d EXCEPT ![f] = [present |-> TRUE, data |-> value]]

VARIABLES
    s3buckets,  \* S3: the set of bucket names
    s3objs,     \* S3: the set of objects [Bucket, Key, Body], one per (Bucket, Key)
    sqs,        \* SQS: queue URL -> [fifo, msgs, dedup]
    topics,     \* SNS: the set of topic ARNs
    subs,       \* SNS: the set of subscriptions
    disk,       \* working directory: file name -> [present, data]
    pc,         \* "idle" (no process), or the service function about to run
    run,        \* the most recent process: [mode, steps, written]
    calls,      \* the service calls and file loads of the most recent step
    drain,      \* what the backup_sqs of the most recent process did
    snap,       \* history: per service, whether one completed backup wrote its files
    resends,    \* history: restore_sqs runs on one snapshot since an empty target
    runs,       \* how often the tool has run since LocalStack was started
    fresh       \* whether the users are still setting the environment up

vars == <<s3buckets, s3objs, sqs, topics, subs, disk, pc, run, calls, drain,
          snap, resends, runs, fresh>>

envvars == <<s3buckets, s3objs, sqs, topics, subs>>

\* ---------------------------------------------------------------------- S3
\* s3.list_buckets()
list_buckets ==
    LET names == ListSeq(BucketOrder, s3buckets)
    IN  [Buckets |-> [i \in 1..Len(names) |-> [Name |-> names[i]]]]

\* s3.list_objects(Bucket=b): no 'Contents' key when the bucket holds no object.
list_objects(b) ==
    LET keys == ListSeq(KeyOrder, {o.Key : o \in {p \in s3objs : p.Bucket = b}})
    IN  IF keys = <<>>
        THEN [Name |-> b]
        ELSE [Name |-> b, Contents |-> [i \in 1..Len(keys) |-> [Key |-> keys[i]]]]

\* s3.get_object(Bucket=b, Key=k)
get_object(b, k) ==
    [Body |-> (CHOOSE o \in s3objs : o.Bucket = b /\ o.Key = k).Body]

\* backup_s3, lines 71-85: the loop over the buckets; contents['Contents'] of a
\* response without that key raises KeyError.
RECURSIVE backup_s3_loop(_, _)
backup_s3_loop(buckets, objects) ==
    IF buckets = <<>>
    THEN [fault |-> FALSE, objects |-> objects]
    ELSE LET bucket == Head(buckets)
             contents == list_objects(bucket.Name)
         IN  IF "Contents" \notin DOMAIN contents
             THEN [fault |-> TRUE, objects |-> objects]
             ELSE backup_s3_loop(Tail(buckets),
                    objects \o [i \in 1..Len(contents.Contents) |->
                        [bucket_name |-> bucket.Name,
                         object_key  |-> contents.Contents[i].Key,
                         object_body |-> get_object(bucket.Name,
                                             contents.Contents[i].Key).Body]])

\* backup_s3, lines 56-89, with a connection: [fault, disk, written].
backup_s3_body ==
    LET buckets == list_buckets
        bucket_list == [i \in 1..Len(buckets.Buckets) |-> buckets.Buckets[i].Name]
        disk1 == Dump(disk, "s3_buckets.pickle", bucket_list)
        loop == backup_s3_loop(buckets.Buckets, <<>>)
    IN  IF loop.fault
        THEN [fault |-> TRUE, disk |-> disk1, written |-> {"s3_buckets.pickle"}]
        ELSE [fault |-> FALSE,
              disk |-> Dump(disk1, "s3_objects.pickle", loop.objects),
              written |-> {"s3_buckets.pickle", "s3_objects.pickle"}]

\* s3.create_bucket(Bucket=b) in us-east-1: creating a bucket one owns succeeds.
create_bucket(env, b) == [env EXCEPT !.buckets = @ \cup {b}]

\* s3.put_object(Bucket, Key, Body): replaces the object of that key.
put_object(env, b, k, body) ==
    [env EXCEPT !.objs = {o \in @ : ~(o.Bucket = b /\ o.Key = k)}
                          \cup {[Bucket |-> b, Key |-> k, Body |-> body]}]

\* restore_s3, lines 226-228
RECURSIVE restore_s3_buckets(_, _)
restore_s3_buckets(st, bucket_list) ==
    IF bucket_list = <<>>
    THEN st
    ELSE restore_s3_buckets(
            [st EXCEPT !.env = create_bucket(@, Head(bucket_list)),
                       !.calls = Append(@, [op |-> "create_bucket",
                                            Bucket |-> Head(bucket_list)])],
            Tail(bucket_list))

\* restore_s3, lines 234-235: put_object into a bucket that does not exist
\* raises NoSuchBucket.
RECURSIVE restore_s3_objects(_, _)
restore_s3_objects(st, object_list) ==
    IF object_list = <<>>
    THEN st
    ELSE LET object == Head(object_list)
             call == [op |-> "put_object", Bucket |-> object.bucket_name,
                      Key |-> object.object_key, Body |-> object.object_body]
         IN  IF object.bucket_name \notin st.env.buckets
             THEN [st EXCEPT !.fault = TRUE, !.calls = Append(@, call)]
             ELSE restore_s3_objects(
                    [st EXCEPT !.env = put_object(@, object.bucket_name,
                                           object.object_key, object.object_body),
                               !.calls = Append(@, call)],
                    Tail(object_list))

\* pickle.load(open(f, "rb")): a missing file raises FileNotFoundError.
Load(st, f) ==
    IF disk[f].present
    THEN [st EXCEPT !.calls = Append(@, [op |-> "load", File |-> f])]
    ELSE [st EXCEPT !.calls = Append(@, [op |-> "load", File |-> f]),
                    !.fault = TRUE]

\* A restore_s3 whose object restore is not under `if len(bucket_list) > 0`.
restore_s3_body_unguarded ==
    LET st0 == [env |-> [buckets |-> s3buckets, objs |-> s3objs],
                calls |-> <<>>, fault |-> FALSE]
        st1 == Load(st0, "s3_buckets.pickle")
    IN  IF st1.fault THEN st1
        ELSE LET st2 == restore_s3_buckets(st1, disk["s3_buckets.pickle"].data)
                 st3 == Load(st2, "s3_objects.pickle")
             IN  IF st3.fault THEN st3
                 ELSE restore_s3_objects(st3, disk["s3_objects.pickle"].data)

\* restore_s3, lines 222-235, with a connection: [env, calls, fault].
restore_s3_body ==
    LET st0 == [env |-> [buckets |-> s3buckets, objs |-> s3objs],
                calls |-> <<>>, fault |-> FALSE]
        st1 == Load(st0, "s3_buckets.pickle")
    IN  IF st1.fault THEN st1
        ELSE LET bucket_list == disk["s3_buckets.pickle"].data
             IN  IF Len(bucket_list) > 0
                 THEN LET st2 == restore_s3_buckets(st1, bucket_list)
                          st3 == Load(st2, "s3_objects.pickle")
                      IN  IF st3.fault THEN st3
                          ELSE restore_s3_objects(st3,
                                   disk["s3_objects.pickle"].data)
                 ELSE st1

\* --------------------------------------------------------------------- SQS
\* The queue URL LocalStack gives the queue of a name:
\* http://localhost:4566/000000000000/<name>
QueueUrl(name) ==
    <<"http:", "/", "/", "localhost:4566", "/", "000000000000", "/">> \o name

FifoSuffix == <<".fifo">>

\* Queue names, in the order list_queues returns their URLs.
QueueNameOrder == << <<"jobs">>, <<"orders", ".fifo">> >>

QueueUrlOrder == [i \in 1..Len(QueueNameOrder) |-> QueueUrl(QueueNameOrder[i])]

\* string.ascii_letters, cut to two letters.
Letters == {"a", "b"}

\* gen_rand_str(strlen), lines 32-34: every string the call can return.
gen_rand_str(strlen) == [1..strlen -> Letters]

\* The length of the identifiers restore_sqs asks for, lines 289-290.
RandStrLen == 3

NoQueues == [u \in {} |-> 0]

\* sqs.list_queues(): no 'QueueUrls' key when there is no queue.
list_queues(env) ==
    LET urls == ListSeq(QueueUrlOrder, DOMAIN env)
    IN  IF urls = <<>> THEN [ResponseMetadata |-> "200"]
        ELSE [QueueUrls |-> urls, ResponseMetadata |-> "200"]

\* sqs.receive_message(QueueUrl, MaxNumberOfMessages=1): no 'Messages' key when
\* no message is available.
receive_message(env, queue_url) ==
    IF env[queue_url].msgs = <<>>
    THEN [ResponseMetadata |-> "200"]
    ELSE [Messages |-> << [Body |-> Head(env[queue_url].msgs),
                           ReceiptHandle |-> 1] >>,
          ResponseMetadata |-> "200"]

DeleteAt(s, i) == SubSeq(s, 1, i - 1) \o SubSeq(s, i + 1, Len(s))

\* A delete_message that leaves the message in its queue.
delete_message_kept(env, queue_url, handle) == env

\* sqs.delete_message(QueueUrl, ReceiptHandle)
delete_message(env, queue_url, handle) ==
    [env EXCEPT ![queue_url].msgs = DeleteAt(@, handle)]

\* backup_sqs, lines 133-137: msg_count receive-and-delete cycles;
\* response['Messages'] of a response without that key raises KeyError.
RECURSIVE backup_sqs_receive(_, _, _)
backup_sqs_receive(st, queue_url, todo) ==
    IF todo = 0
    THEN st
    ELSE LET response == receive_message(st.env, queue_url)
         IN  IF "Messages" \notin DOMAIN response
             THEN [st EXCEPT !.fault = TRUE]
             ELSE LET message == response.Messages[1]
                  IN  backup_sqs_receive(
                        [st EXCEPT
                           !.all_messages = Append(@, [queue |-> queue_url,
                                                       body |-> message.Body]),
                           !.env = delete_message(@, queue_url,
                                                  message.ReceiptHandle)],
                        queue_url, todo - 1)

\* backup_sqs, lines 121-137: the loop over the queues.  reported[u] is the
\* ApproximateNumberOfMessages the service answers for u.
RECURSIVE backup_sqs_loop(_, _, _)
backup_sqs_loop(st, urls, reported) ==
    IF urls = <<>> \/ st.fault
    THEN st
    ELSE LET queue_url == Head(urls)
             msg_count == reported[queue_url]
             st1 == [st EXCEPT !.processed = @ \cup {queue_url}]
         IN  backup_sqs_loop(
                IF msg_count > 0
                THEN backup_sqs_receive(st1, queue_url, msg_count)
                ELSE st1,
                Tail(urls), reported)

\* backup_sqs, lines 112-141, with a connection, on the queues `env`:
\* [env, all_messages, processed, fault, disk, written].
backup_sqs_body(env, reported) ==
    LET queues == list_queues(env)
        st0 == [env |-> env, all_messages |-> <<>>, processed |-> {},
                fault |-> FALSE, disk |-> disk, written |-> {}]
    IN  IF "QueueUrls" \notin DOMAIN queues
        THEN [st0 EXCEPT !.fault = TRUE]
        ELSE LET queueUrls == queues.QueueUrls
                 st1 == [st0 EXCEPT
                           !.disk = Dump(@, "sqs_queues.pickle", queueUrls),
                           !.written = {"sqs_queues.pickle"}]
                 st2 == backup_sqs_loop(st1, queues.QueueUrls, reported)
             IN  IF st2.fault
                 THEN st2
                 ELSE [st2 EXCEPT
                         !.disk = Dump(@, "sqs_messages.pickle", st2.all_messages),
                         !.written = @ \cup {"sqs_messages.pickle"}]

\* sqs.create_queue(QueueName, Attributes): a FIFO queue's name must end in
\* ".fifo" and only a FIFO queue's may; creating a queue that exists with the
\* same attributes returns it unchanged.
create_queue(st, queue_name, fifo) ==
    LET url == QueueUrl(queue_name)
        call == [op |-> "create_queue", QueueName |-> queue_name, Fifo |-> fifo]
    IN  IF fifo # EndsWith(queue_name, FifoSuffix)
        THEN [st EXCEPT !.fault = TRUE, !.calls = Append(@, call)]
        ELSE IF url \in DOMAIN st.env
        THEN [st EXCEPT !.calls = Append(@, call)]
        ELSE [st EXCEPT
                !.calls = Append(@, call),
                !.env = [u \in DOMAIN @ \cup {url} |->
                            IF u = url
                            THEN [fifo |-> fifo, msgs |-> <<>>, dedup |-> {}]
                            ELSE @[u]]]

\* sqs.send_message(QueueUrl, MessageBody[, MessageGroupId,
\* MessageDeduplicationId]): a queue that does not exist is an error, as are
\* FIFO parameters on a standard queue or their absence on a FIFO queue.  A FIFO
\* queue accepts and drops a message whose deduplication id it has seen in the
\* deduplication interval.
send_message(st, queue_url, body, fifoargs, dedup_id) ==
    LET call == [op |-> "send_message", QueueUrl |-> queue_url,
                 MessageBody |-> body, Fifo |-> fifoargs]
        st1 == [st EXCEPT !.calls = Append(@, call)]
    IN  IF queue_url \notin DOMAIN st.env
        THEN [st1 EXCEPT !.fault = TRUE]
        ELSE IF st.env[queue_url].fifo # fifoargs
        THEN [st1 EXCEPT !.fault = TRUE]
        ELSE IF fifoargs /\ dedup_id \in st.env[queue_url].dedup
        THEN st1
        ELSE [st1 EXCEPT
                !.env[queue_url].msgs = Append(@, body),
                !.env[queue_url].dedup =
                    IF fifoargs THEN @ \cup {dedup_id} ELSE @]

\* restore_sqs, lines 261-275
RECURSIVE restore_sqs_queues(_, _)
restore_sqs_queues(st, queue_list) ==
    IF queue_list = <<>> \/ st.fault
    THEN st
    ELSE LET queue == Head(queue_list)
             queue_name == Last(Split(queue, "/"))
         IN  restore_sqs_queues(
                create_queue(st, queue_name, EndsWith(queue_name, FifoSuffix)),
                Tail(queue_list))

\* restore_sqs, lines 281-296: rand[i] is the MessageDeduplicationId that
\* gen_rand_str(3) returns for the i-th message of the list.  (The
\* MessageGroupId, drawn the same way, orders delivery and does not decide
\* whether the message is kept.)
RECURSIVE restore_sqs_messages(_, _, _, _)
restore_sqs_messages(st, message_list, i, rand) ==
    IF i > Len(message_list) \/ st.fault
    THEN st
    ELSE LET message == message_list[i]
         IN  restore_sqs_messages(
                IF EndsWith(message.queue, FifoSuffix)
                THEN send_message(st, message.queue, message.body, TRUE, rand[i])
                ELSE send_message(st, message.queue, message.body, FALSE, <<>>),
                message_list, i + 1, rand)

\* The positions of message_list whose send draws random identifiers.
FifoIndexes(message_list) ==
    {i \in 1..Len(message_list) : EndsWith(message_list[i].queue, FifoSuffix)}

\* restore_sqs, lines 258-296, with a connection: [env, calls, fault].
restore_sqs_body(rand) ==
    LET st0 == [env |-> sqs, calls |-> <<>>, fault |-> FALSE]
        st1 == Load(st0, "sqs_queues.pickle")
    IN  IF st1.fault THEN st1
        ELSE LET queue_list == disk["sqs_queues.pickle"].data
                 st2 == IF Len(queue_list) > 0
                        THEN restore_sqs_queues(st1, queue_list)
                        ELSE st1
                 st3 == IF st2.fault THEN st2
                        ELSE Load(st2, "sqs_messages.pickle")
             IN  IF st3.fault THEN st3
                 ELSE restore_sqs_messages(st3,
                          disk["sqs_messages.pickle"].data, 1, rand)

\* --------------------------------------------------------------------- SNS
\* The ARN LocalStack gives the topic of a name.
TopicArn(name) ==
    <<"arn", ":", "aws", ":", "sns", ":", "us-east-1", ":", "000000000000", ":">>
        \o name

\* Topic names, in the order list_topics returns their ARNs.
TopicNameOrder == << <<"events">>, <<"alerts">> >>

TopicArnOrder == [i \in 1..Len(TopicNameOrder) |-> TopicArn(TopicNameOrder[i])]

\* Subscription endpoints (SQS queue ARNs), in listing order.
EndpointOrder == <<"arn:aws:sqs:us-east-1:000000000000:jobs">>

DlqArn == "arn:aws:sqs:us-east-1:000000000000:dlq"

\* A subscription of the environment; RedrivePolicy is "" when it has none.
Subscription(topic, endpoint, dlq) ==
    [TopicArn |-> topic, Protocol |-> "sqs", Endpoint |-> endpoint,
     RedrivePolicy |-> dlq]

\* sns.list_topics()
list_topics ==
    LET arns == ListSeq(TopicArnOrder, topics)
    IN  [Topics |-> [i \in 1..Len(arns) |-> [TopicArn |-> arns[i]]]]

\* sns.list_subscriptions_by_topic(TopicArn=t): each member has the keys
\* SubscriptionArn, Owner, Protocol, Endpoint, TopicArn and no other.
list_subscriptions_by_topic(t) ==
    LET eps == ListSeq(EndpointOrder,
                       {x.Endpoint : x \in {y \in subs : y.TopicArn = t}})
    IN  [Subscriptions |-> [i \in 1..Len(eps) |->
            [SubscriptionArn |-> t \o <<":", eps[i]>>,
             Owner |-> "000000000000",
             Protocol |-> "sqs",
             Endpoint |-> eps[i],
             TopicArn |-> t]]]

\* backup_sns, lines 179-186: the record of one subscription.
backup_sns_record(topic, subscription) ==
    LET this_sub == [topicARN |-> topic,
                     subARN |-> subscription.SubscriptionArn,
                     protocol |-> subscription.Protocol,
                     endpoint |-> subscription.Endpoint]
    IN  IF /\ "RawMessageDelivery" \in DOMAIN subscription
           /\ "RedrivePolicy" \in DOMAIN subscription.RawMessageDelivery
        THEN [topicARN |-> this_sub.topicARN, subARN |-> this_sub.subARN,
              protocol |-> this_sub.protocol, endpoint |-> this_sub.endpoint,
              DLQARN |-> subscription.RawMessageDelivery.RedrivePolicy
                             .deadLetterTargetArn]
        ELSE this_sub

\* backup_sns, lines 175-186
RECURSIVE backup_sns_loop(_, _)
backup_sns_loop(topic_list, subscription_list) ==
    IF topic_list = <<>>
    THEN subscription_list
    ELSE LET topic == Head(topic_list)
             subscriptions == list_subscriptions_by_topic(topic).Subscriptions
         IN  backup_sns_loop(Tail(topic_list),
                subscription_list \o
                    [i \in 1..Len(subscriptions) |->
                        backup_sns_record(topic, subscriptions[i])])

\* backup_sns, lines 160-190, with a connection: [disk, written].
backup_sns_body ==
    LET response == list_topics
        topics_ == response.Topics
    IN  IF Len(topics_) > 0
        THEN LET topic_list == [i \in 1..Len(topics_) |-> topics_[i].TopicArn]
                 disk1 == Dump(disk, "sns_topics.pickle", topic_list)
             IN  [disk |-> Dump(disk1, "sns_subs.pickle",
                                backup_sns_loop(topic_list, <<>>)),
                  written |-> {"sns_topics.pickle", "sns_subs.pickle"}]
        ELSE [disk |-> disk, written |-> {}]

\* sns.create_topic(Name): creating a topic that exists returns it.
create_topic(st, topic_name) ==
    [st EXCEPT !.env.topics = @ \cup {TopicArn(topic_name)},
               !.calls = Append(@, [op |-> "create_topic", Name |-> topic_name])]

\* sns.subscribe(TopicArn, Protocol, Endpoint[, Attributes]): a topic that does
\* not exist is an error; subscribing an endpoint again returns its subscription.
subscribe(st, topic, protocol, endpoint, attributes) ==
    LET call == [op |-> "subscribe", TopicArn |-> topic, Protocol |-> protocol,
                 Endpoint |-> endpoint, Attributes |-> attributes]
        st1 == [st EXCEPT !.calls = Append(@, call)]
    IN  IF topic \notin st.env.topics
        THEN [st1 EXCEPT !.fault = TRUE]
        ELSE IF \E x \in st.env.subs : x.TopicArn = topic /\ x.Endpoint = endpoint
        THEN st1
        ELSE [st1 EXCEPT !.env.subs = @ \cup
                {Subscription(topic, endpoint,
                    IF "RedrivePolicy" \in DOMAIN attributes
                    THEN attributes.RedrivePolicy.deadLetterTargetArn
                    ELSE "")}]

\* The attributes of a Python 3 dict (f-strings make the program Python 3):
\* has_key is not one of them.
DictAttributes == {"clear", "copy", "fromkeys", "get", "items", "keys", "pop",
                   "popitem", "setdefault", "update", "values"}

\* restore_sns, lines 332-346: one subscription.  subscription.has_key raises
\* AttributeError when dict has no such attribute; subscription['TopicARN'],
\* ['Protocol'] and ['Endpoint'] raise KeyError when the record has no such key.
restore_sns_subscription(st, subscription) ==
    IF "has_key" \notin DictAttributes
    THEN [st EXCEPT !.fault = TRUE]
    ELSE IF {"TopicARN", "Protocol", "Endpoint"} \subseteq DOMAIN subscription
    THEN subscribe(st, subscription.TopicARN, subscription.Protocol,
            subscription.Endpoint,
            IF "DLQARN" \in DOMAIN subscription
            THEN [RedrivePolicy |->
                    [deadLetterTargetArn |-> subscription.DLQARN,
                     maxReceiveCount |-> "5"]]
            ELSE [none |-> TRUE])
    ELSE [st EXCEPT !.fault = TRUE]

\* restore_sns, lines 319-322
RECURSIVE restore_sns_topics(_, _)
restore_sns_topics(st, topic_list) ==
    IF topic_list = <<>>
    THEN st
    ELSE restore_sns_topics(
            create_topic(st, Last(Split(Head(topic_list), ":"))),
            Tail(topic_list))

\* restore_sns, lines 330-346
RECURSIVE restore_sns_subscriptions(_, _)
restore_sns_subscriptions(st, subscriptions) ==
    IF subscriptions = <<>> \/ st.fault
    THEN st
    ELSE restore_sns_subscriptions(
            restore_sns_subscription(st, Head(subscriptions)),
            Tail(subscriptions))

\* restore_sns, lines 313-346, with a connection: [env, calls, fault].
restore_sns_body ==
    LET st0 == [env |-> [topics |-> topics, subs |-> subs],
                calls |-> <<>>, fault |-> FALSE]
        st1 == Load(st0, "sns_topics.pickle")
    IN  IF st1.fault THEN st1
        ELSE LET topic_list == disk["sns_topics.pickle"].data
                 st2 == IF Len(topic_list) > 0
                        THEN restore_sns_topics(st1, topic_list)
                        ELSE st1
                 st3 == Load(st2, "sns_subs.pickle")
             IN  IF st3.fault THEN st3
                 ELSE restore_sns_subscriptions(st3, disk["sns_subs.pickle"].data)

\* ----------------------------------------------------------------- process
NoRun == [mode |-> "none", steps |-> <<>>, written |-> {}]

NoDrain == [ran |-> FALSE]

Init ==
    /\ s3buckets = {}
    /\ s3objs = {}
    /\ sqs = NoQueues
    /\ topics = {}
    /\ subs = {}
    /\ disk = [f \in FileNames |-> NoFile]
    /\ pc = "idle"
    /\ run = NoRun
    /\ calls = <<>>
    /\ drain = NoDrain
    /\ snap = [s3 |-> FALSE, sqs |-> FALSE]
    /\ resends = 0
    /\ runs = 0
    /\ fresh = TRUE

\* str.lower() of the answers the prompt is given here.
Lower(choice) ==
    CASE choice = "B" -> "b"
      [] choice = "R" -> "r"
      [] OTHER -> choice

Choices == {"b", "B", "r", "R", "q"}

\* main(), lines 362-376
main(answer) ==
    /\ pc = "idle"
    /\ runs < MaxRuns
    /\ LET choice == Lower(answer)
       IN  IF choice \notin {"b", "r"}
           THEN /\ pc' = "idle"
                /\ run' = [NoRun EXCEPT !.mode = "invalid"]
           ELSE IF choice = "b"
           THEN /\ pc' = "backup_s3"
                /\ run' = [NoRun EXCEPT !.mode = "b"]
           ELSE /\ pc' = "restore_s3"
                /\ run' = [NoRun EXCEPT !.mode = "r"]
    /\ calls' = <<>>
    /\ drain' = NoDrain
    /\ runs' = runs + 1
    /\ fresh' = FALSE
    /\ UNCHANGED <<envvars, disk, snap, resends>>

\* backup(), lines 197-200, and restore(), lines 353-356: the function that
\* runs after fn returns.
Following(fn) ==
    CASE fn = "backup_s3"   -> "backup_sqs"
      [] fn = "backup_sqs"  -> "backup_sns"
      [] fn = "backup_sns"  -> "idle"
      [] fn = "restore_s3"  -> "restore_sqs"
      [] fn = "restore_sqs" -> "restore_sns"
      [] fn = "restore_sns" -> "idle"

\* Where the process is after fn: an uncaught exception ends it.
AfterStep(fn, fault) == IF fault THEN "idle" ELSE Following(fn)

\* An end of a service function at which a failed connection ends the process.
StepDone_abandon(fn, conn, fault, empty, written) ==
    /\ run' = [run EXCEPT
                 !.steps = Append(@, [fn |-> fn, conn |-> conn, fault |-> fault,
                                      empty |-> empty, killed |-> FALSE]),
                 !.written = @ \cup written]
    /\ pc' = IF conn THEN AfterStep(fn, fault) ELSE "idle"

\* The end of a service function: conn is the outcome of its try/except around
\* boto3.client, empty whether it found its service empty.
StepDone(fn, conn, fault, empty, written) ==
    /\ run' = [run EXCEPT
                 !.steps = Append(@, [fn |-> fn, conn |-> conn, fault |-> fault,
                                      empty |-> empty, killed |-> FALSE]),
                 !.written = @ \cup written]
    /\ pc' = AfterStep(fn, fault)

\* backup_s3(), lines 39-91
backup_s3(s3_conn) ==
    /\ pc = "backup_s3"
    /\ IF s3_conn
       THEN LET r == backup_s3_body
            IN  /\ disk' = r.disk
                /\ snap' = [snap EXCEPT !.s3 = ~r.fault]
                /\ StepDone("backup_s3", TRUE, r.fault, s3buckets = {}, r.written)
       ELSE /\ UNCHANGED <<disk, snap>>
            /\ StepDone("backup_s3", FALSE, FALSE, s3buckets = {}, {})
    /\ calls' = <<>>
    /\ UNCHANGED <<envvars, drain, resends, runs, fresh>>

\* backup_s3() killed from outside between its two writes (after line 68).
backup_s3_killed ==
    /\ pc = "backup_s3"
    /\ disk' = Dump(disk, "s3_buckets.pickle",
                    [i \in 1..Len(list_buckets.Buckets) |->
                        list_buckets.Buckets[i].Name])
    /\ snap' = [snap EXCEPT !.s3 = FALSE]
    /\ run' = [run EXCEPT
                 !.steps = Append(@, [fn |-> "backup_s3", conn |-> TRUE,
                                      fault |-> FALSE, empty |-> s3buckets = {},
                                      killed |-> TRUE]),
                 !.written = @ \cup {"s3_buckets.pickle"}]
    /\ pc' = "idle"
    /\ calls' = <<>>
    /\ UNCHANGED <<envvars, drain, resends, runs, fresh>>

Max(a, b) == IF a >= b THEN a ELSE b

Perms(n) == {p \in [1..n -> 1..n] : \A i, j \in 1..n : i # j => p[i] # p[j]}

\* The orders in which a queue can deliver its messages: a FIFO queue in the
\* order sent, a standard queue in any order.
Deliveries(q) ==
    IF q.fifo
    THEN {q.msgs}
    ELSE {[i \in 1..Len(q.msgs) |-> q.msgs[p[i]]] : p \in Perms(Len(q.msgs))}

\* How far ApproximateNumberOfMessages can be from the number of messages.
Skews == {0 - 1, 0, 1}

\* backup_sqs(), lines 96-143
backup_sqs(sqs_conn) ==
    /\ pc = "backup_sqs"
    /\ IF sqs_conn
       THEN \E skew \in [DOMAIN sqs -> Skews],
               order \in [DOMAIN sqs ->
                             UNION {Deliveries(sqs[u]) : u \in DOMAIN sqs}] :
            /\ \A u \in DOMAIN sqs : order[u] \in Deliveries(sqs[u])
            /\ LET env == [u \in DOMAIN sqs |-> [sqs[u] EXCEPT !.msgs = order[u]]]
                   reported == [u \in DOMAIN sqs |->
                                   Max(0, Len(sqs[u].msgs) + skew[u])]
                   r == backup_sqs_body(env, reported)
               IN  /\ sqs' = r.env
                   /\ disk' = r.disk
                   /\ drain' = [ran |-> TRUE, pre |-> sqs, reported |-> reported,
                                processed |-> r.processed,
                                received |-> r.all_messages]
                   /\ snap' = [snap EXCEPT !.sqs =
                                 /\ ~r.fault
                                 /\ \A u \in DOMAIN sqs :
                                        reported[u] = Len(sqs[u].msgs)]
                   /\ resends' = 0
                   /\ StepDone("backup_sqs", TRUE, r.fault,
                               DOMAIN sqs = {}, r.written)
       ELSE /\ UNCHANGED <<sqs, disk, drain, snap, resends>>
            /\ StepDone("backup_sqs", FALSE, FALSE, DOMAIN sqs = {}, {})
    /\ calls' = <<>>
    /\ UNCHANGED <<s3buckets, s3objs, topics, subs, runs, fresh>>

\* backup_sns(), lines 149-192
backup_sns(sns_conn) ==
    /\ pc = "backup_sns"
    /\ IF sns_conn
       THEN LET r == backup_sns_body
            IN  /\ disk' = r.disk
                /\ StepDone("backup_sns", TRUE, FALSE, topics = {}, r.written)
       ELSE /\ UNCHANGED disk
            /\ StepDone("backup_sns", FALSE, FALSE, topics = {}, {})
    /\ calls' = <<>>
    /\ UNCHANGED <<envvars, drain, snap, resends, runs, fresh>>

\* restore_s3(), lines 205-237
restore_s3(s3_conn) ==
    /\ pc = "restore_s3"
    /\ IF s3_conn
       THEN LET r == restore_s3_body
            IN  /\ s3buckets' = r.env.buckets
                /\ s3objs' = r.env.objs
                /\ calls' = r.calls
                /\ StepDone("restore_s3", TRUE, r.fault, s3buckets = {}, {})
       ELSE /\ UNCHANGED <<s3buckets, s3objs>>
            /\ calls' = <<>>
            /\ StepDone("restore_s3", FALSE, FALSE, s3buckets = {}, {})
    /\ UNCHANGED <<sqs, topics, subs, disk, drain, snap, resends, runs, fresh>>

\* The queues once the deduplication interval has passed.
Forget(env) == [u \in DOMAIN env |-> [env[u] EXCEPT !.dedup = {}]]

\* No queue grows beyond MaxQueueLen if every message of the snapshot is sent.
RestoreFits ==
    LET message_list == disk["sqs_messages.pickle"].data
    IN  \A u \in Range(QueueUrlOrder) :
            Cardinality({i \in 1..Len(message_list) : message_list[i].queue = u})
              + (IF u \in DOMAIN sqs THEN Len(sqs[u].msgs) ELSE 0) <= MaxQueueLen

\* restore_sqs(), lines 241-298
restore_sqs(sqs_conn) ==
    /\ pc = "restore_sqs"
    /\ RestoreFits
    /\ IF sqs_conn
       THEN \E rand \in [FifoIndexes(disk["sqs_messages.pickle"].data) ->
                            gen_rand_str(RandStrLen)] :
            LET r == restore_sqs_body(rand)
            IN  /\ sqs' = Forget(r.env)
                /\ calls' = r.calls
                /\ resends' = IF r.fault THEN 0
                              ELSE IF DOMAIN sqs = {} THEN 1
                              ELSE IF resends > 0 THEN resends + 1
                              ELSE 0
                /\ StepDone("restore_sqs", TRUE, r.fault, DOMAIN sqs = {}, {})
       ELSE /\ UNCHANGED <<sqs, resends>>
            /\ calls' = <<>>
            /\ StepDone("restore_sqs", FALSE, FALSE, DOMAIN sqs = {}, {})
    /\ UNCHANGED <<s3buckets, s3objs, topics, subs, disk, drain, snap, runs, fresh>>

\* restore_sns(), lines 304-347
restore_sns(sns_conn) ==
    /\ pc = "restore_sns"
    /\ IF sns_conn
       THEN LET r == restore_sns_body
            IN  /\ topics' = r.env.topics
                /\ subs' = r.env.subs
                /\ calls' = r.calls
                /\ StepDone("restore_sns", TRUE, r.fault, topics = {}, {})
       ELSE /\ UNCHANGED <<topics, subs>>
            /\ calls' = <<>>
            /\ StepDone("restore_sns", FALSE, FALSE, topics = {}, {})
    /\ UNCHANGED <<s3buckets, s3objs, sqs, disk, drain, snap, resends, runs, fresh>>

\* ------------------------------------------------------------- environment
\* What the users of the environment do: they set it up, and leave it alone
\* once the tool has run on it.
Setup ==
    /\ pc = "idle"
    /\ fresh
    /\ UNCHANGED <<disk, pc, run, calls, drain, snap, resends, runs, fresh>>

UserCreateBucket(b) ==
    /\ Setup
    /\ b \notin s3buckets
    /\ s3buckets' = s3buckets \cup {b}
    /\ UNCHANGED <<s3objs, sqs, topics, subs>>

UserPutObject(b, k, body) ==
    /\ Setup
    /\ b \in s3buckets
    /\ ~ \E o \in s3objs : o.Bucket = b /\ o.Key = k
    /\ Cardinality(s3objs) < MaxObjects
    /\ s3objs' = s3objs \cup {[Bucket |-> b, Key |-> k, Body |-> body]}
    /\ UNCHANGED <<s3buckets, sqs, topics, subs>>

UserCreateQueue(name) ==
    /\ Setup
    /\ QueueUrl(name) \notin DOMAIN sqs
    /\ sqs' = [u \in DOMAIN sqs \cup {QueueUrl(name)} |->
                  IF u = QueueUrl(name)
                  THEN [fifo |-> EndsWith(name, FifoSuffix), msgs |-> <<>>,
                        dedup |-> {}]
                  ELSE sqs[u]]
    /\ UNCHANGED <<s3buckets, s3objs, topics, subs>>

\* A producer's message that the queue accepts (on a FIFO queue, one with a
\* deduplication id of its own).
UserSendMessage(u, body) ==
    /\ Setup
    /\ u \in DOMAIN sqs
    /\ Len(sqs[u].msgs) < MaxMsgs
    /\ sqs' = [sqs EXCEPT ![u].msgs = Append(@, body)]
    /\ UNCHANGED <<s3buckets, s3objs, topics, subs>>

UserCreateTopic(name) ==
    /\ Setup
    /\ TopicArn(name) \notin topics
    /\ topics' = topics \cup {TopicArn(name)}
    /\ UNCHANGED <<s3buckets, s3objs, sqs, subs>>

UserSubscribe(t, endpoint, dlq) ==
    /\ Setup
    /\ t \in topics
    /\ ~ \E x \in subs : x.TopicArn = t /\ x.Endpoint = endpoint
    /\ subs' = subs \cup {Subscription(t, endpoint, dlq)}
    /\ UNCHANGED <<s3buckets, s3objs, sqs, topics>>

\* LocalStack restarted without persistence: the environment is empty again,
\* for a restore (anew = FALSE) or for the users to set up anew.
Restart(anew) ==
    /\ pc = "idle"
    /\ runs > 0
    /\ s3buckets' = {}
    /\ s3objs' = {}
    /\ sqs' = NoQueues
    /\ topics' = {}
    /\ subs' = {}
    /\ run' = NoRun
    /\ calls' = <<>>
    /\ drain' = NoDrain
    /\ resends' = 0
    /\ runs' = 0
    /\ fresh' = anew
    /\ UNCHANGED <<disk, pc, snap>>

\* ---------------------------------------------------------- specifications
Tool ==
    \/ \E answer \in Choices : main(answer)
    \/ \E conn \in BOOLEAN : backup_s3(conn)
    \/ \E conn \in BOOLEAN : backup_sqs(conn)
    \/ \E conn \in BOOLEAN : backup_sns(conn)
    \/ \E conn \in BOOLEAN : restore_s3(conn)
    \/ \E conn \in BOOLEAN : restore_sqs(conn)
    \/ \E conn \in BOOLEAN : restore_sns(conn)

UsersS3 ==
    \/ \E b \in Range(BucketOrder) : UserCreateBucket(b)
    \/ \E b \in Range(BucketOrder), k \in Range(KeyOrder), body \in Bodies :
          UserPutObject(b, k, body)

UsersSQS ==
    \/ \E name \in Range(QueueNameOrder) : UserCreateQueue(name)
    \/ \E u \in Range(QueueUrlOrder), body \in Bodies : UserSendMessage(u, body)

UsersSNS ==
    \/ \E name \in Range(TopicNameOrder) : UserCreateTopic(name)
    \/ \E t \in Range(TopicArnOrder), e \in Range(EndpointOrder),
          dlq \in {"", DlqArn} : UserSubscribe(t, e, dlq)

NextS3 == Tool \/ backup_s3_killed \/ UsersS3 \/ Restart(FALSE)
SpecS3 == Init /\ [][NextS3]_vars

\* The tool with the S3 and SNS services reachable.
ToolSQS ==
    \/ \E answer \in Choices : main(answer)
    \/ backup_s3(TRUE)
    \/ \E conn \in BOOLEAN : backup_sqs(conn)
    \/ backup_sns(TRUE)
    \/ restore_s3(TRUE)
    \/ \E conn \in BOOLEAN : restore_sqs(conn)
    \/ restore_sns(TRUE)

NextSQS == ToolSQS \/ UsersSQS \/ Restart(FALSE)
SpecSQS == Init /\ [][NextSQS]_vars

\* Backups only, one after another, of the queues the users have set up.
ToolDrain ==
    \/ \E answer \in {"b", "B", "q"} : main(answer)
    \/ backup_s3(TRUE)
    \/ \E conn \in BOOLEAN : backup_sqs(conn)
    \/ backup_sns(TRUE)

NextDrain == ToolDrain \/ UsersSQS
SpecDrain == Init /\ [][NextDrain]_vars

NextSNS == Tool \/ UsersSNS \/ Restart(FALSE)
SpecSNS == Init /\ [][NextSNS]_vars

\* The three services together: one bucket with one object, one standard
\* queue, one topic with one subscription, set up anew after a restart.
UsersAll ==
    \/ UserCreateBucket(BucketOrder[1])
    \/ UserPutObject(BucketOrder[1], KeyOrder[1], "x")
    \/ UserCreateQueue(QueueNameOrder[1])
    \/ UserSendMessage(QueueUrlOrder[1], "x")
    \/ UserCreateTopic(TopicNameOrder[1])
    \/ UserSubscribe(TopicArnOrder[1], EndpointOrder[1], "")

Next == Tool \/ UsersAll \/ Restart(TRUE)
Spec == Init /\ [][Next]_vars

\* ------------------------------------------------------------------ claims
\* The state is the one a service function has just left.
JustRan(fn) == Len(run.steps) > 0 /\ Last(run.steps).fn = fn

\* The multiset of the members of a sequence.
BagOf(seq) == [b \in Range(seq) |-> Cardinality({i \in 1..Len(seq) : seq[i] = b})]

\* The bodies a message list records for a queue, in the order of the list.
BodiesFor(message_list, u) ==
    LET mine == SelectSeq(message_list, LAMBDA m : m.queue = u)
    IN  [i \in 1..Len(mine) |-> mine[i].body]

ObjectRecords(objs) ==
    {[bucket_name |-> o.Bucket, object_key |-> o.Key, object_body |-> o.Body] :
        o \in objs}

\* C1. Storage round trip: backup_s3 on any buckets and objects, empty buckets
\* included, does not fault and writes exactly those bucket names and objects;
\* restore_s3 of a completed snapshot into an empty target does not fault and
\* leaves exactly the buckets and objects of the snapshot.
C1_StorageRoundTrip ==
    /\ (/\ JustRan("backup_s3")
        /\ Last(run.steps).conn
        /\ ~Last(run.steps).killed)
       => /\ ~Last(run.steps).fault
          /\ disk["s3_buckets.pickle"].present
          /\ disk["s3_objects.pickle"].present
          /\ Range(disk["s3_buckets.pickle"].data) = s3buckets
          /\ Range(disk["s3_objects.pickle"].data) = ObjectRecords(s3objs)
    /\ (/\ JustRan("restore_s3")
        /\ Last(run.steps).conn
        /\ Last(run.steps).empty
        /\ snap.s3)
       => /\ ~Last(run.steps).fault
          /\ s3buckets = Range(disk["s3_buckets.pickle"].data)
          /\ ObjectRecords(s3objs) = Range(disk["s3_objects.pickle"].data)

\* The round trip of C1 for environments in which every bucket holds an object.
C1_NonEmptyBuckets ==
    /\ (/\ JustRan("backup_s3")
        /\ Last(run.steps).conn
        /\ ~Last(run.steps).killed
        /\ \A b \in s3buckets : \E o \in s3objs : o.Bucket = b)
       => /\ ~Last(run.steps).fault
          /\ Range(disk["s3_buckets.pickle"].data) = s3buckets
          /\ Range(disk["s3_objects.pickle"].data) = ObjectRecords(s3objs)
    /\ (/\ JustRan("restore_s3")
        /\ Last(run.steps).conn
        /\ Last(run.steps).empty
        /\ snap.s3)
       => /\ ~Last(run.steps).fault
          /\ s3buckets = Range(disk["s3_buckets.pickle"].data)
          /\ ObjectRecords(s3objs) = Range(disk["s3_objects.pickle"].data)

QueueName(u) == Last(Split(u, "/"))

\* C2. Queue round trip: backup_sqs, told the true number of messages of each
\* of one or more queues, does not fault and records every queue and, for each,
\* the multiset of its message bodies; restore_sqs of such a snapshot into an
\* empty target does not fault and leaves queues of the same names, FIFO where
\* the name ends in .fifo, each with the multiset of bodies recorded for it.
C2_QueueRoundTrip ==
    /\ (/\ JustRan("backup_sqs")
        /\ Last(run.steps).conn
        /\ DOMAIN drain.pre # {}
        /\ \A u \in DOMAIN drain.pre :
               drain.reported[u] = Len(drain.pre[u].msgs))
       => /\ ~Last(run.steps).fault
          /\ Range(disk["sqs_queues.pickle"].data) = DOMAIN drain.pre
          /\ \A u \in DOMAIN drain.pre :
                BagOf(BodiesFor(disk["sqs_messages.pickle"].data, u))
                    = BagOf(drain.pre[u].msgs)
    /\ (/\ JustRan("restore_sqs")
        /\ Last(run.steps).conn
        /\ Last(run.steps).empty
        /\ snap.sqs)
       => /\ ~Last(run.steps).fault
          /\ {QueueName(u) : u \in DOMAIN sqs}
                = {QueueName(u) : u \in Range(disk["sqs_queues.pickle"].data)}
          /\ \A u \in DOMAIN sqs :
                /\ sqs[u].fifo = EndsWith(QueueName(u), FifoSuffix)
                /\ BagOf(sqs[u].msgs)
                     = BagOf(BodiesFor(disk["sqs_messages.pickle"].data, u))

\* C3. Destructive backup: every queue backup_sqs has worked on holds no
\* message afterwards.
C3_SourceDrained ==
    (JustRan("backup_sqs") /\ Last(run.steps).conn)
    => \A u \in drain.processed : Len(sqs[u].msgs) = 0

\* The indexes of the subscribe calls that restore a record.
SubscribeCalls(record) ==
    {j \in 1..Len(calls) :
        /\ calls[j].op = "subscribe"
        /\ calls[j].TopicArn = record.topicARN
        /\ calls[j].Protocol = record.protocol
        /\ calls[j].Endpoint = record.endpoint}

\* C4. Subscription restore: for every record of the subscription snapshot
\* restore_sns issues exactly one subscribe call with its topic ARN, protocol
\* and endpoint, with a RedrivePolicy of the record's DLQ ARN and
\* maxReceiveCount 5 when the record has a DLQ ARN, and without one when not.
C4_SubscriptionsRestored ==
    (/\ JustRan("restore_sns")
     /\ Last(run.steps).conn
     /\ disk["sns_topics.pickle"].present
     /\ disk["sns_subs.pickle"].present)
    => \A i \in 1..Len(disk["sns_subs.pickle"].data) :
          LET record == disk["sns_subs.pickle"].data[i]
          IN  /\ Cardinality(SubscribeCalls(record)) = 1
              /\ \A j \in SubscribeCalls(record) :
                    IF "DLQARN" \in DOMAIN record
                    THEN calls[j].Attributes =
                            [RedrivePolicy |->
                                [deadLetterTargetArn |-> record.DLQARN,
                                 maxReceiveCount |-> "5"]]
                    ELSE "RedrivePolicy" \notin DOMAIN calls[j].Attributes

EnvEmpty == s3buckets = {} /\ DOMAIN sqs = {} /\ topics = {}

AllConnected == \A i \in 1..Len(run.steps) : run.steps[i].conn

\* A backup process has ended, of itself or by a fault.
BackupEnded == run.mode = "b" /\ pc = "idle" /\ Len(run.steps) > 0

\* C5. Empty environment: backup() on an environment without buckets, queues
\* and topics runs its three steps without a fault, writes the bucket-name,
\* object, queue-URL and message files as empty sequences, and does not write
\* the topic and subscription files.
C5_EmptyEnvironment ==
    (BackupEnded /\ AllConnected /\ EnvEmpty)
    => /\ Len(run.steps) = 3
       /\ \A i \in 1..Len(run.steps) : ~run.steps[i].fault
       /\ \A f \in {"s3_buckets.pickle", "s3_objects.pickle",
                    "sqs_queues.pickle", "sqs_messages.pickle"} :
             f \in run.written /\ disk[f] = [present |-> TRUE, data |-> <<>>]
       /\ "sns_topics.pickle" \notin run.written
       /\ "sns_subs.pickle" \notin run.written

\* The service functions of a process, in the order backup() and restore()
\* call them.
Order(mode) ==
    IF mode = "b"
    THEN <<"backup_s3", "backup_sqs", "backup_sns">>
    ELSE <<"restore_s3", "restore_sqs", "restore_sns">>

\* C6. Orchestration: backup() and restore() run the storage step, then the
\* queue step, then the pub/sub step; a step whose connection attempt fails
\* does not fault, writes no file, creates nothing and makes no call, and the
\* process goes on to the step after it.
C6_Orchestration ==
    [][/\ (pc = "idle" /\ pc' # "idle") => pc' = Order(run'.mode)[1]
       /\ Len(run'.steps) = Len(run.steps) + 1
          => LET n == Len(run'.steps)
                 step == run'.steps[n]
             IN  /\ n <= 3
                 /\ pc = step.fn
                 /\ step.fn = Order(run.mode)[n]
                 /\ ~step.fault
                    => pc' = IF n = 3 THEN "idle" ELSE Order(run.mode)[n + 1]
                 /\ ~step.conn
                    => /\ ~step.fault
                       /\ disk' = disk
                       /\ envvars' = envvars
                       /\ calls' = <<>>
                       /\ run'.written = run.written]_vars

\* A backup whose storage connection failed has gone on to write the queue
\* files and to end with the pub/sub step.
C6_Witness ==
    /\ run.mode = "b"
    /\ pc = "idle"
    /\ Len(run.steps) = 3
    /\ ~run.steps[1].conn
    /\ run.steps[2].conn
    /\ run.written = {"sqs_queues.pickle", "sqs_messages.pickle"}

\* C7. Fresh snapshot: after a backup that ran its three steps connected and
\* without a fault, no snapshot file holds something of an earlier run: every
\* file there is was written by this run and holds what this run enumerated.
C7_FreshSnapshot ==
    (/\ BackupEnded
     /\ Len(run.steps) = 3
     /\ AllConnected
     /\ \A i \in 1..3 : ~run.steps[i].fault)
    => /\ \A f \in FileNames : disk[f].present => f \in run.written
       /\ Range(disk["s3_buckets.pickle"].data) = s3buckets
       /\ Range(disk["s3_objects.pickle"].data) = ObjectRecords(s3objs)
       /\ Range(disk["sqs_queues.pickle"].data) = DOMAIN sqs
       /\ disk["sqs_messages.pickle"].data = drain.received
       /\ disk["sns_topics.pickle"].present
          => Range(disk["sns_topics.pickle"].data) = topics
       /\ disk["sns_subs.pickle"].present
          => {<<r.topicARN, r.endpoint>> :
                 r \in Range(disk["sns_subs.pickle"].data)}
               = {<<x.TopicArn, x.Endpoint>> : x \in subs}

\* C8. Additive restore: after restore_sqs has run k times, k at least 2, on
\* one snapshot into a target that was empty at first, each queue holds k
\* times the number of messages the snapshot records for it.
C8_AdditiveRestore ==
    (JustRan("restore_sqs") /\ resends >= 2)
    => \A u \in DOMAIN sqs :
          Len(sqs[u].msgs)
            = resends * Len(BodiesFor(disk["sqs_messages.pickle"].data, u))

\* The indexes of the calls of an operation that restore_s3 has made.
CallsOf(op) == {j \in 1..Len(calls) : calls[j].op = op}

\* C9. restore_s3 guard: with an empty bucket list restore_s3 makes no
\* put_object call and does not read the object file; with a non-empty one it
\* makes a create_bucket call for every bucket of the list, and every
\* create_bucket call precedes every put_object call.
C9_RestoreS3Guard ==
    (/\ JustRan("restore_s3")
     /\ Last(run.steps).conn
     /\ disk["s3_buckets.pickle"].present)
    => LET bucket_list == disk["s3_buckets.pickle"].data
       IN  IF bucket_list = <<>>
           THEN /\ CallsOf("put_object") = {}
                /\ CallsOf("create_bucket") = {}
                /\ \A j \in CallsOf("load") : calls[j].File # "s3_objects.pickle"
                /\ ~Last(run.steps).fault
           ELSE /\ Cardinality(CallsOf("create_bucket")) = Len(bucket_list)
                /\ {calls[j].Bucket : j \in CallsOf("create_bucket")}
                      = Range(bucket_list)
                /\ \A c \in CallsOf("create_bucket"), p \in CallsOf("put_object") :
                      c < p

\* restore_s3 has run on an empty bucket list beside an object file that
\* records objects.
C9_Witness ==
    /\ JustRan("restore_s3")
    /\ Last(run.steps).conn
    /\ disk["s3_buckets.pickle"].present
    /\ disk["s3_buckets.pickle"].data = <<>>
    /\ disk["s3_objects.pickle"].present
    /\ disk["s3_objects.pickle"].data # <<>>

\* restore_s3 has run on a bucket list and an object list, both non-empty.
C9_WitnessObjects ==
    /\ JustRan("restore_s3")
    /\ Last(run.steps).conn
    /\ CallsOf("create_bucket") # {}
    /\ CallsOf("put_object") # {}

\* C10. Loss on a faulting drain: backup_sqs on one or more queues faults
\* exactly when the count reported for a queue it works on exceeds the
\* messages the queue holds; when it faults the message file is not written,
\* and every message it received is gone from its queue.
C10_LossOnFault ==
    (/\ JustRan("backup_sqs")
     /\ Last(run.steps).conn
     /\ DOMAIN drain.pre # {})
    => /\ Last(run.steps).fault
          <=> \E u \in drain.processed :
                 drain.reported[u] > Len(drain.pre[u].msgs)
       /\ Last(run.steps).fault
          => /\ "sqs_messages.pickle" \notin run.written
             /\ \A u \in DOMAIN drain.pre :
                   /\ Len(sqs[u].msgs) + Len(BodiesFor(drain.received, u))
                        = Len(drain.pre[u].msgs)
                   /\ BagOf(sqs[u].msgs \o BodiesFor(drain.received, u))
                        = BagOf(drain.pre[u].msgs)

\* backup_sqs has faulted after it received, and deleted, a message.
C10_Witness ==
    /\ JustRan("backup_sqs")
    /\ Last(run.steps).conn
    /\ Last(run.steps).fault
    /\ Len(drain.received) > 0
    /\ "sqs_messages.pickle" \notin run.written

====
